---- MODULE Spec2Model ----
(***************************************************************************)
(* A model of server.py, the Slack community-data MCP server: the dataset  *)
(* locator and loader, the message and member filters, the channel         *)
(* statistics, the result projection and the call_tool gateway.            *)
(*                                                                         *)
(* Python values are modelled as follows.                                  *)
(*   str        a sequence of one-character strings, so that substring     *)
(*              tests, lower(), slicing and parsing are computed           *)
(*   dict       a function whose DOMAIN is the set of keys present         *)
(*   list       a sequence                                                 *)
(*   None/str   arguments that may be None are tagged: PyNone, PyStr(s)    *)
(*   datetime   [sec, usec]: whole seconds and microseconds since the      *)
(*              epoch, in the host's local time (the host runs in UTC)     *)
(*   a call     Ok(v) when it returns v, Raise(e, m) when it raises e(m)   *)
(***************************************************************************)
EXTENDS Integers, Sequences, FiniteSets, TLC

VARIABLES files, dataset, call, result

vars == <<files, dataset, call, result>>

-----------------------------------------------------------------------------
(* Bounds of the model *)

\* longest all_messages / new_members collection of a dataset
MaxRecords == 2
\* most files in the data directory
MaxFiles == 2
\* modification times are 1..MaxMtime
MaxMtime == 2

(* Program constants *)

\* arguments.pop("limit", 50)
DefaultLimit == 50
\* msg.get("text", "")[:200]
TextCut == 200

-----------------------------------------------------------------------------
(* Strings *)

UpperAlpha == <<"A","B","C","D","E","F","G","H","I","J","K","L","M",
                "N","O","P","Q","R","S","T","U","V","W","X","Y","Z">>
LowerAlpha == <<"a","b","c","d","e","f","g","h","i","j","k","l","m",
                "n","o","p","q","r","s","t","u","v","w","x","y","z">>
Digits == <<"0","1","2","3","4","5","6","7","8","9">>

\* str.lower() on one character
LowerChar(c) ==
    IF \E i \in 1..26 : UpperAlpha[i] = c
    THEN LowerAlpha[CHOOSE i \in 1..26 : UpperAlpha[i] = c]
    ELSE c

\* str.lower()
Lower(s) == [i \in 1..Len(s) |-> LowerChar(s[i])]

\* sub in s
Contains(sub, s) ==
    \E i \in 0..(Len(s) - Len(sub)) : SubSeq(s, i + 1, i + Len(sub)) = sub

\* s[:n] for n >= 0
Prefix(s, n) == SubSeq(s, 1, IF n < Len(s) THEN n ELSE Len(s))

\* s[:n] for any integer n: a negative n counts from the end
SliceTo(s, n) ==
    IF n >= 0 THEN Prefix(s, n)
    ELSE IF Len(s) + n > 0 THEN SubSeq(s, 1, Len(s) + n) ELSE <<>>

RECURSIVE RemoveChar(_, _)
\* s.replace(c, "")
RemoveChar(s, c) ==
    IF s = <<>> THEN <<>>
    ELSE IF Head(s) = c THEN RemoveChar(Tail(s), c)
    ELSE <<Head(s)>> \o RemoveChar(Tail(s), c)

IsDigit(c) == \E i \in 1..10 : Digits[i] = c
DigitVal(c) == (CHOOSE i \in 1..10 : Digits[i] = c) - 1
AllDigits(s) == \A i \in 1..Len(s) : IsDigit(s[i])

RECURSIVE DigitsToNat(_)
DigitsToNat(s) ==
    IF s = <<>> THEN 0
    ELSE 10 * DigitsToNat(SubSeq(s, 1, Len(s) - 1)) + DigitVal(s[Len(s)])

-----------------------------------------------------------------------------
(* Python values and outcomes *)

PyNone == [t |-> "None"]
PyStr(s) == [t |-> "str", s |-> s]
\* bool(v) of a value that is None or a str
Truthy(v) == v.t = "str" /\ v.s # <<>>

Ok(v) == [ok |-> TRUE, val |-> v]
Raise(e, m) == [ok |-> FALSE, exc |-> e, msg |-> m]

\* d.get(k, default)
Get(d, k, default) == IF k \in DOMAIN d THEN d[k] ELSE default

-----------------------------------------------------------------------------
(* float(), datetime.fromtimestamp(), datetime.fromisoformat() *)

\* position of the first "." of s, or Len(s) + 1
DotPos(s) ==
    IF \E i \in 1..Len(s) : s[i] = "."
    THEN CHOOSE i \in 1..Len(s) : s[i] = "." /\ \A j \in 1..(i - 1) : s[j] # "."
    ELSE Len(s) + 1

\* the fraction digits of a decimal string as microseconds (six digits kept)
Micros(frac) ==
    DigitsToNat(Prefix(frac \o <<"0","0","0","0","0","0">>, 6))

\* the decimal string with whole part and fraction digits given, as a date-time
DecimalTime(whole, frac) ==
    IF AllDigits(whole) /\ AllDigits(frac) /\ Len(whole) + Len(frac) > 0
    THEN Ok([sec |-> DigitsToNat(whole), usec |-> Micros(frac)])
    ELSE Raise("ValueError", "could not convert string to float")

\* float(s) followed by datetime.fromtimestamp(): a decimal string of seconds
\* becomes a date-time; anything else raises ValueError in float()
FromTimestampStr(s) ==
    DecimalTime(SubSeq(s, 1, DotPos(s) - 1), SubSeq(s, DotPos(s) + 1, Len(s)))

\* a < b on date-times
DtLess(a, b) == a.sec < b.sec \/ (a.sec = b.sec /\ a.usec < b.usec)

IsLeap(y) == (y % 4 = 0 /\ y % 100 # 0) \/ y % 400 = 0

DaysInMonth(y, m) ==
    IF m = 2 THEN (IF IsLeap(y) THEN 29 ELSE 28)
    ELSE IF m \in {4, 6, 9, 11} THEN 30 ELSE 31

\* days from 1970-01-01 to the civil date y-m-d
DaysFromCivil(y, m, d) ==
    LET yy == IF m <= 2 THEN y - 1 ELSE y
        era == yy \div 400
        yoe == yy - era * 400
        mp == IF m > 2 THEN m - 3 ELSE m + 9
        doy == (153 * mp + 2) \div 5 + d - 1
        doe == yoe * 365 + yoe \div 4 - yoe \div 100 + doy
    IN era * 146097 + doe - 719468

\* midnight of the civil date y-m-d, ValueError when there is no such date
CivilMidnight(y, m, d) ==
    IF y < 1 THEN Raise("ValueError", "year 0 is out of range")
    ELSE IF m \notin 1..12 THEN Raise("ValueError", "month must be in 1..12")
    ELSE IF d \notin 1..DaysInMonth(y, m)
    THEN Raise("ValueError", "day is out of range for month")
    ELSE Ok([sec |-> DaysFromCivil(y, m, d) * 86400, usec |-> 0])

\* datetime.fromisoformat of the string s
ParseIsoDate(s) ==
    IF /\ Len(s) = 10 /\ s[5] = "-" /\ s[8] = "-"
       /\ AllDigits(SubSeq(s, 1, 4)) /\ AllDigits(SubSeq(s, 6, 7))
       /\ AllDigits(SubSeq(s, 9, 10))
    THEN CivilMidnight(DigitsToNat(SubSeq(s, 1, 4)), DigitsToNat(SubSeq(s, 6, 7)),
                       DigitsToNat(SubSeq(s, 9, 10)))
    ELSE Raise("ValueError", "Invalid isoformat string")

\* datetime.fromisoformat(v): midnight of a YYYY-MM-DD date; TypeError for a
\* value that is no str, ValueError for a string that is no date
fromisoformat(v) ==
    IF v.t # "str" THEN Raise("TypeError", "fromisoformat: argument must be str")
    ELSE ParseIsoDate(v.s)

-----------------------------------------------------------------------------
(* query_messages *)

Pass == [r |-> "pass"]
Skip == [r |-> "skip"]
Abort(o) == [r |-> "raise", exc |-> o.exc, msg |-> o.msg]

\* lines 79-81
ChannelStage(msg, filters) ==
    IF "channel" \in DOMAIN filters
       /\ ~Contains(filters["channel"], Get(msg, "channel_name", <<>>))
    THEN Skip ELSE Pass

\* a to_date bound that excludes its own midnight
CompareToDateExclusive(to_dt, msg_date) ==
    IF ~to_dt.ok THEN Abort(to_dt)
    ELSE IF ~DtLess(msg_date, to_dt.val) THEN Skip ELSE Pass

\* lines 94-96, to_dt being the outcome of fromisoformat
CompareToDate(to_dt, msg_date) ==
    IF ~to_dt.ok THEN Abort(to_dt)
    ELSE IF DtLess(to_dt.val, msg_date) THEN Skip ELSE Pass

\* lines 93-96
ToDateStage(msg_date, filters) ==
    IF "to_date" \in DOMAIN filters
    THEN CompareToDate(fromisoformat(filters["to_date"]), msg_date)
    ELSE Pass

\* lines 89-91 and then 93-96, from_dt being the outcome of fromisoformat
CompareFromDate(from_dt, msg_date, filters) ==
    IF ~from_dt.ok THEN Abort(from_dt)
    ELSE IF DtLess(msg_date, from_dt.val) THEN Skip
    ELSE ToDateStage(msg_date, filters)

\* lines 88-96, msg_date being the outcome of lines 85-86
DateBounds(msg_date, filters) ==
    IF ~msg_date.ok THEN Abort(msg_date)
    ELSE IF "from_date" \in DOMAIN filters
    THEN CompareFromDate(fromisoformat(filters["from_date"]), msg_date.val, filters)
    ELSE ToDateStage(msg_date.val, filters)

\* lines 84-96
DateStage(msg, filters) ==
    IF "from_date" \in DOMAIN filters \/ "to_date" \in DOMAIN filters
    THEN DateBounds(FromTimestampStr(Get(msg, "ts", <<"0">>)), filters)
    ELSE Pass

\* lines 99-102
UserStage(msg, filters) ==
    IF "user" \in DOMAIN filters
       /\ ~Contains(Lower(filters["user"]), Lower(Get(msg, "user_name", <<>>)))
    THEN Skip ELSE Pass

\* lines 105-108
TextStage(msg, filters) ==
    IF "search_text" \in DOMAIN filters
       /\ ~Contains(Lower(filters["search_text"]), Lower(Get(msg, "text", <<>>)))
    THEN Skip ELSE Pass

\* a has_replies test by truthiness: False filters nothing
RepliesStageTruthy(msg, filters) ==
    IF "has_replies" \in DOMAIN filters /\ filters["has_replies"]
       /\ ~(Get(msg, "reply_count", 0) > 0)
    THEN Skip ELSE Pass

\* lines 111-114
RepliesStage(msg, filters) ==
    IF "has_replies" \in DOMAIN filters
       /\ filters["has_replies"] # (Get(msg, "reply_count", 0) > 0)
    THEN Skip ELSE Pass

S_intro == <<"i","n","t","r","o">>
S_ask == <<"a","s","k">>
S_discussion == <<"d","i","s","c","u","s","s","i","o","n">>
S_news == <<"n","e","w","s">>
S_session == <<"s","e","s","s","i","o","n">>
S_07_intros == <<"0","7","-">> \o S_intro \o <<"s">>
S_05_asks == <<"0","5","-">> \o S_ask \o <<"s">>
S_02_discussion == <<"0","2","-">> \o S_discussion
S_03_news == <<"0","3","-">> \o S_news
S_09_sessions ==
    <<"0","9","-","0","0","-","h","e","m","i","n","g","w","a","y","-">>
    \o S_session \o <<"s">>

\* the categories that are keys of category_map
category_keys == {S_intro, S_ask, S_discussion, S_news, S_session}

\* category_map[c] for a key c
category_map(c) ==
    CASE c = S_intro -> S_07_intros
      [] c = S_ask -> S_05_asks
      [] c = S_discussion -> S_02_discussion
      [] c = S_news -> S_03_news
      [] c = S_session -> S_09_sessions

\* lines 130-132
CategoryMatch(category, channel) ==
    IF category \in category_keys /\ ~Contains(category_map(category), channel)
    THEN Skip ELSE Pass

\* lines 117-132
CategoryStage(msg, filters) ==
    IF "category" \in DOMAIN filters
    THEN CategoryMatch(Lower(filters["category"]), Get(msg, "channel_name", <<>>))
    ELSE Pass

RECURSIVE FirstNotPass(_)
\* the outcome of the first stage that does not pass, Pass when all do
FirstNotPass(stages) ==
    IF stages = <<>> THEN Pass
    ELSE IF Head(stages).r # "pass" THEN Head(stages)
    ELSE FirstNotPass(Tail(stages))

\* the body of the loop for one message, lines 78-132: the stages in order,
\* the first continue or exception ending it
MsgOutcome(msg, filters) ==
    FirstNotPass(<< ChannelStage(msg, filters), DateStage(msg, filters),
                    UserStage(msg, filters), TextStage(msg, filters),
                    RepliesStage(msg, filters), CategoryStage(msg, filters) >>)

RECURSIVE QueryLoop(_, _, _, _)

\* one turn of the loop, o being the outcome of its body
QueryStep(messages, filters, i, results, o) ==
    IF o.r = "raise" THEN Raise(o.exc, o.msg)
    ELSE IF o.r = "skip" THEN QueryLoop(messages, filters, i + 1, results)
    ELSE QueryLoop(messages, filters, i + 1, Append(results, messages[i]))

\* the for loop of query_messages from message i on, with results so far
QueryLoop(messages, filters, i, results) ==
    IF i > Len(messages) THEN Ok(results)
    ELSE QueryStep(messages, filters, i, results, MsgOutcome(messages[i], filters))

query_messages(data, filters) ==
    QueryLoop(Get(data, "all_messages", <<>>), filters, 1, <<>>)

-----------------------------------------------------------------------------
(* get_new_members *)

\* lines 156-159
MemberToStage(member_date, to_date) ==
    IF Truthy(to_date) THEN CompareToDate(fromisoformat(to_date), member_date)
    ELSE Pass

\* lines 152-159, from_dt being the outcome of fromisoformat
MemberCompareFrom(from_dt, member_date, to_date) ==
    IF ~from_dt.ok THEN Abort(from_dt)
    ELSE IF DtLess(member_date, from_dt.val) THEN Skip
    ELSE MemberToStage(member_date, to_date)

\* lines 151-159, member_date being the outcome of lines 148-149
MemberBounds(member_date, from_date, to_date) ==
    IF ~member_date.ok THEN Abort(member_date)
    ELSE IF Truthy(from_date)
    THEN MemberCompareFrom(fromisoformat(from_date), member_date.val, to_date)
    ELSE MemberToStage(member_date.val, to_date)

\* the body of the loop for one member, lines 148-159
MemberOutcome(member, from_date, to_date) ==
    MemberBounds(FromTimestampStr(Get(member, "ts", <<"0">>)), from_date, to_date)

RECURSIVE MemberLoop(_, _, _, _, _)

MemberStep(members, from_date, to_date, i, results, o) ==
    IF o.r = "raise" THEN Raise(o.exc, o.msg)
    ELSE IF o.r = "skip"
    THEN MemberLoop(members, from_date, to_date, i + 1, results)
    ELSE MemberLoop(members, from_date, to_date, i + 1, Append(results, members[i]))

MemberLoop(members, from_date, to_date, i, results) ==
    IF i > Len(members) THEN Ok(results)
    ELSE MemberStep(members, from_date, to_date, i, results,
                    MemberOutcome(members[i], from_date, to_date))

get_new_members(data, from_date, to_date) ==
    IF ~Truthy(from_date) /\ ~Truthy(to_date)
    THEN Ok(Get(data, "new_members", <<>>))
    ELSE MemberLoop(Get(data, "new_members", <<>>), from_date, to_date, 1, <<>>)

-----------------------------------------------------------------------------
(* The data directory, get_latest_extraction and load_slack_data *)

\* files is the listing of DATA_DIR: a sequence of [name, mtime, content] with
\* distinct names; content is "json" (the file holds the dataset) or "bad"
\* (the file is no JSON document)

S_json == <<".","j","s","o","n">>
S_hemingway_ == <<"h","e","m","i","n","g","w","a","y","_">>
S_slack_ == <<"s","l","a","c","k","_">>
S_slack_export == <<"_","s","l","a","c","k","_","e","x","p","o","r","t">>

\* patterns = ["hemingway_*.json", "slack_*.json", "*_slack_export.json"]
patterns == << S_hemingway_ \o <<"*">> \o S_json,
               S_slack_ \o <<"*">> \o S_json,
               <<"*">> \o S_slack_export \o S_json >>

RECURSIVE GlobMatch(_, _)
\* fnmatch of the name s against the pattern pat, "*" matching any run
GlobMatch(pat, s) ==
    IF pat = <<>> THEN s = <<>>
    ELSE IF Head(pat) = "*"
    THEN \/ GlobMatch(Tail(pat), s)
         \/ s # <<>> /\ GlobMatch(pat, Tail(s))
    ELSE s # <<>> /\ Head(s) = Head(pat) /\ GlobMatch(Tail(pat), Tail(s))

RECURSIVE Glob(_, _)
\* DATA_DIR.glob(pattern): the matching names, in listing order
Glob(fs, pattern) ==
    IF fs = <<>> THEN <<>>
    ELSE IF GlobMatch(pattern, Head(fs).name)
    THEN <<Head(fs).name>> \o Glob(Tail(fs), pattern)
    ELSE Glob(Tail(fs), pattern)

\* p.stat().st_mtime
MtimeOf(fs, name) == fs[CHOOSE i \in 1..Len(fs) : fs[i].name = name].mtime

Exists(fs, name) == \E i \in 1..Len(fs) : fs[i].name = name

ContentOf(fs, name) == fs[CHOOSE i \in 1..Len(fs) : fs[i].name = name].content

\* the order of a sort without reverse=True
AscendingOrder(kx, ky) == kx < ky

\* the order of sorted(..., reverse=True): a larger key goes first
ReverseOrder(kx, ky) == kx > ky

RECURSIVE InsertSorted(_, _)
\* insert x = [key, item] behind every element it does not go before
InsertSorted(sorted, x) ==
    IF sorted = <<>> THEN <<x>>
    ELSE IF ReverseOrder(x.key, Head(sorted).key) THEN <<x>> \o sorted
    ELSE <<Head(sorted)>> \o InsertSorted(Tail(sorted), x)

RECURSIVE SortedReverse(_, _)
\* sorted(keyed, key=..., reverse=True) of a sequence of [key, item]: stable,
\* elements of equal key stay in their original order
SortedReverse(keyed, sorted) ==
    IF keyed = <<>> THEN sorted
    ELSE SortedReverse(Tail(keyed), InsertSorted(sorted, Head(keyed)))

NoPath == [found |-> FALSE]
PathOf(name) == [found |-> TRUE, name |-> name]

\* lines 51-54
NewestOf(fs, candidates) ==
    IF candidates = <<>> THEN NoPath
    ELSE PathOf(SortedReverse([i \in 1..Len(candidates) |->
                                  [key |-> MtimeOf(fs, candidates[i]),
                                   item |-> candidates[i]]], <<>>)[1].item)

get_latest_extraction(fs) ==
    NewestOf(fs, Glob(fs, patterns[1]) \o Glob(fs, patterns[2])
                 \o Glob(fs, patterns[3]))

\* load_slack_data(json_path), data being what the JSON files hold
load_slack_data(fs, data, name) ==
    IF ~Exists(fs, name) THEN Ok(<<>>)
    ELSE IF ContentOf(fs, name) = "bad"
    THEN Raise("JSONDecodeError", "Expecting value: line 1 column 1 (char 0)")
    ELSE Ok(data)

-----------------------------------------------------------------------------
(* The projections of call_tool *)

RECURSIVE NatToDigits(_, _)
\* n in decimal, zero-padded to width digits
NatToDigits(n, width) ==
    IF width = 0 THEN <<>>
    ELSE NatToDigits(n \div 10, width - 1) \o <<Digits[(n % 10) + 1]>>

\* the civil date of day doy of year-of-era yoe of an era, as YYYY-MM-DD;
\* mp is the month counted from March
FormatCivil(era, yoe, doy, mp) ==
    NatToDigits(yoe + era * 400 + (IF mp < 10 THEN 0 ELSE 1), 4) \o <<"-">>
    \o NatToDigits(IF mp < 10 THEN mp + 3 ELSE mp - 9, 2) \o <<"-">>
    \o NatToDigits(doy - (153 * mp + 2) \div 5 + 1, 2)

FormatDoy(era, yoe, doy) == FormatCivil(era, yoe, doy, (5 * doy + 2) \div 153)

FormatYoe(era, doe, yoe) ==
    FormatDoy(era, yoe, doe - (365 * yoe + yoe \div 4 - yoe \div 100))

FormatDoe(era, doe) ==
    FormatYoe(era, doe,
              (doe - doe \div 1460 + doe \div 36524 - doe \div 146096) \div 365)

\* the date of day z, counted from 0000-03-01
FormatDay(z) == FormatDoe(z \div 146097, z % 146097)

\* dt.strftime("%Y-%m-%d")
StrfDate(dt) == FormatDay(dt.sec \div 86400 + 719468)

S_Unknown == <<"U","n","k","n","o","w","n">>
S_unknown == <<"u","n","k","n","o","w","n">>
S_None == <<"N","o","n","e">>
S_archives == <<"https://hemingway-community.slack.com/archives/">>

\* lines 399-406
SimplifyMessage(msg) ==
    [user |-> Get(msg, "user_name", S_Unknown),
     channel |-> Get(msg, "channel_name", <<>>),
     text |-> Prefix(Get(msg, "text", <<>>), TextCut),
     timestamp |-> Get(msg, "ts", <<>>),
     reply_count |-> Get(msg, "reply_count", 0),
     permalink |-> S_archives \o Get(msg, "channel_id", S_None) \o <<"/","p">>
                   \o RemoveChar(Get(msg, "ts", <<>>), ".")]

\* lines 420-425, joined being the outcome of fromtimestamp(float(ts))
MemberRecord(m, joined) ==
    IF ~joined.ok THEN joined
    ELSE Ok([name |-> Get(m, "name", S_Unknown),
             intro_text |-> Prefix(Get(m, "text", <<>>), TextCut),
             permalink |-> Get(m, "permalink", <<>>),
             joined_date |-> StrfDate(joined.val)])

\* lines 420-425; float() raises on a ts that is no number
SimplifyMember(m) == MemberRecord(m, FromTimestampStr(Get(m, "ts", <<"0">>)))

\* the list of h and then t, or the first exception of the two
Cons(h, t) == IF ~h.ok THEN h ELSE IF ~t.ok THEN t ELSE Ok(<<h.val>> \o t.val)

RECURSIVE SimplifyMembers(_)
\* lines 419-427
SimplifyMembers(members) ==
    IF members = <<>> THEN Ok(<<>>)
    ELSE Cons(SimplifyMember(Head(members)), SimplifyMembers(Tail(members)))

\* a dict as the sequence of its <<key, value>> items in insertion order
DictKeys(d) == {d[i][1] : i \in 1..Len(d)}
DictIndex(d, k) == CHOOSE i \in 1..Len(d) : d[i][1] = k
\* d.get(k, default)
DictGet(d, k, default) ==
    IF k \in DictKeys(d) THEN d[DictIndex(d, k)][2] ELSE default
\* d[k] = v
DictSet(d, k, v) ==
    IF k \in DictKeys(d) THEN [d EXCEPT ![DictIndex(d, k)] = <<k, v>>]
    ELSE Append(d, <<k, v>>)

RECURSIVE DictFromItems(_, _)
\* dict(items)
DictFromItems(items, d) ==
    IF items = <<>> THEN d
    ELSE DictFromItems(Tail(items), DictSet(d, Head(items)[1], Head(items)[2]))

\* line 449: stats[channel] = stats.get(channel, 0) + 1
CountOne(stats, channel) == DictSet(stats, channel, DictGet(stats, channel, 0) + 1)

RECURSIVE CountByChannel(_, _)
\* lines 446-449
CountByChannel(messages, stats) ==
    IF messages = <<>> THEN stats
    ELSE CountByChannel(Tail(messages),
                        CountOne(stats, Get(Head(messages), "channel_name",
                                            S_unknown)))

\* the items of a sorted sequence of [key, item]
Items(sorted) == [i \in 1..Len(sorted) |-> sorted[i].item]

\* line 452: sorted(stats.items(), key=lambda x: x[1], reverse=True)
SortStats(stats) ==
    Items(SortedReverse([i \in 1..Len(stats) |->
                            [key |-> stats[i][2], item |-> stats[i]]], <<>>))

-----------------------------------------------------------------------------
(* Block Kit builders *)

build_header_block(text, emoji) ==
    [type |-> "header",
     text |-> [type |-> "plain_text", text |-> text, emoji |-> emoji]]

build_section_block(text, markdown) ==
    [type |-> "section",
     text |-> [type |-> IF markdown THEN "mrkdwn" ELSE "plain_text",
               text |-> text]]

build_divider_block == [type |-> "divider"]

build_button_block(text, url, action_id) ==
    [type |-> "actions",
     elements |-> << [type |-> "button",
                      text |-> [type |-> "plain_text", text |-> text,
                                emoji |-> TRUE],
                      url |-> url,
                      action_id |-> action_id] >>]

build_context_block(elements) ==
    [type |-> "context",
     elements |-> [i \in 1..Len(elements) |->
                      [type |-> "mrkdwn", text |-> elements[i]]]]

-----------------------------------------------------------------------------
(* call_tool *)

\* json.dumps(v, indent=2)
JsonText(v) == [fmt |-> "json", doc |-> v]
\* f"Error: {str(e)}"
ErrorText(msg) == [fmt |-> "str", parts |-> <<"Error: ", msg>>]
NoDataText ==
    [fmt |-> "str",
     parts |-> <<"No Slack extraction data found. Expected hemingway_*.json in home directory.">>]
UnknownToolText(name) == [fmt |-> "str", parts |-> <<"Unknown tool: ", name>>]

\* call_tool returns [TextContent(type="text", text=t)]
Returned(t) == [raised |-> FALSE, content |-> <<[type |-> "text", text |-> t]>>]
\* arguments[k] of a missing key
KeyError(k) == Raise("KeyError", k)

\* lines 397-411
ProjectMessages(messages) ==
    Ok(JsonText([i \in 1..Len(messages) |-> SimplifyMessage(messages[i])]))

\* lines 394-411, found being the outcome of query_messages
LimitMessages(found, limit) ==
    IF ~found.ok THEN found ELSE ProjectMessages(SliceTo(found.val, limit))

\* lines 392-411
QueryMessagesTool(data, arguments) ==
    LimitMessages(
        query_messages(data, [k \in DOMAIN arguments \ {"limit"} |-> arguments[k]]),
        Get(arguments, "limit", DefaultLimit))

\* lines 429-432, simplified being the outcome of lines 419-427
MembersText(simplified) ==
    IF ~simplified.ok THEN simplified ELSE Ok(JsonText(simplified.val))

\* lines 418-432, members being the outcome of get_new_members
ProjectMembers(members) ==
    IF ~members.ok THEN members ELSE MembersText(SimplifyMembers(members.val))

\* lines 413-432
GetNewMembersTool(data, arguments) ==
    ProjectMembers(get_new_members(data, Get(arguments, "from_date", PyNone),
                                   Get(arguments, "to_date", PyNone)))

\* lines 445-457, messages being the outcome of query_messages
ChannelStats(messages) ==
    IF ~messages.ok THEN messages
    ELSE Ok(JsonText(DictFromItems(SortStats(CountByChannel(messages.val, <<>>)),
                                   <<>>)))

\* lines 434-457
GetChannelStatsTool(data, arguments) ==
    ChannelStats(query_messages(data,
                     [from_date |-> Get(arguments, "from_date", PyNone),
                      to_date |-> Get(arguments, "to_date", PyNone)]))

\* lines 459-473
GetExtractionInfoTool(data_file, data) ==
    Ok(JsonText([data_file |-> data_file.name,
                 workspace |-> Get(data, "workspace", S_unknown),
                 extracted_at |-> Get(data, "extracted_at", S_unknown),
                 time_range |-> Get(data, "time_range", <<>>),
                 total_messages |-> Len(Get(data, "all_messages", <<>>)),
                 total_channels |-> Len(Get(data, "channels", <<>>)),
                 total_users |-> Len(Get(data, "users", <<>>)),
                 new_members |-> Len(Get(data, "new_members", <<>>))]))

\* lines 476-504
BuilderTool(name, arguments) ==
    CASE name = "build_header" ->
           IF "text" \notin DOMAIN arguments THEN KeyError("'text'")
           ELSE Ok(JsonText(build_header_block(arguments["text"],
                                               Get(arguments, "emoji", TRUE))))
      [] name = "build_section" ->
           IF "text" \notin DOMAIN arguments THEN KeyError("'text'")
           ELSE Ok(JsonText(build_section_block(arguments["text"],
                                                Get(arguments, "markdown", TRUE))))
      [] name = "build_divider" -> Ok(JsonText(build_divider_block))
      [] name = "build_button" ->
           IF "text" \notin DOMAIN arguments THEN KeyError("'text'")
           ELSE IF "url" \notin DOMAIN arguments THEN KeyError("'url'")
           ELSE Ok(JsonText(build_button_block(
                       arguments["text"], arguments["url"],
                       Get(arguments, "action_id", <<"b","u","t","t","o","n">>))))
      [] name = "build_context" ->
           IF "elements" \notin DOMAIN arguments THEN KeyError("'elements'")
           ELSE Ok(JsonText(build_context_block(arguments["elements"])))

DataTools ==
    {"query_messages", "get_new_members", "get_channel_stats",
     "get_extraction_info"}
BuilderTools ==
    {"build_header", "build_section", "build_divider", "build_button",
     "build_context"}

\* lines 392-506
Dispatch(data_file, data, name, arguments) ==
    CASE name = "query_messages" -> QueryMessagesTool(data, arguments)
      [] name = "get_new_members" -> GetNewMembersTool(data, arguments)
      [] name = "get_channel_stats" -> GetChannelStatsTool(data, arguments)
      [] name = "get_extraction_info" -> GetExtractionInfoTool(data_file, data)
      [] name \in BuilderTools -> BuilderTool(name, arguments)
      [] OTHER -> Ok(UnknownToolText(name))

\* lines 389-506, loaded being the outcome of load_slack_data
WithData(data_file, loaded, name, arguments) ==
    IF ~loaded.ok THEN loaded
    ELSE Dispatch(data_file, loaded.val, name, arguments)

\* lines 383-506, data_file being what get_latest_extraction returned
WithFile(fs, data, data_file, name, arguments) ==
    IF ~data_file.found THEN Ok(NoDataText)
    ELSE WithData(data_file, load_slack_data(fs, data, data_file.name),
                  name, arguments)

\* the try block of call_tool, lines 381-506
call_tool_try(fs, data, name, arguments) ==
    WithFile(fs, data, get_latest_extraction(fs), name, arguments)

\* an exception leaves call_tool
Escaped(o) == [raised |-> TRUE, exc |-> o.exc, msg |-> o.msg]

\* the except clause with "except ValueError" in place of "except Exception"
CatchValueError(o) ==
    IF o.ok THEN Returned(o.val)
    ELSE IF o.exc \in {"ValueError", "JSONDecodeError"}
    THEN Returned(ErrorText(o.msg))
    ELSE Escaped(o)

\* lines 508-510, o being the outcome of the try block: except Exception
\* turns every failure into text
Catch(o) == IF o.ok THEN Returned(o.val) ELSE Returned(ErrorText(o.msg))

\* call_tool, lines 379-510
call_tool(fs, data, name, arguments) ==
    Catch(call_tool_try(fs, data, name, arguments))

-----------------------------------------------------------------------------
(* Datasets: the decoded content of a snapshot file *)

S_Ann == <<"A","n","n">>
S_ann == <<"a","n","n">>
S_bob == <<"b","o","b">>
S_Bob == <<"B","o","b">>
S_Hi_all == <<"H","i"," ","a","l","l">>
S_hi == <<"h","i">>
S_C7 == <<"C","7">>
S_C2 == <<"C","2">>
S_p1 == <<"p","1">>
\* 1970-01-02 00:00:00, 0.1 s before it, 1970-01-03 00:00:00, 0.5 s after it
TS_day2 == <<"8","6","4","0","0">>
TS_before_day2 == <<"8","6","3","9","9",".","9">>
TS_day3 == <<"1","7","2","8","0","0">>
TS_after_day3 == <<"1","7","2","8","0","0",".","5">>

\* the message records datasets are made of; fields may be missing
MsgUniverse == <<
    [channel_name |-> S_07_intros, channel_id |-> S_C7, user_name |-> S_Ann,
     text |-> S_Hi_all, ts |-> TS_day2, reply_count |-> 2],
    [channel_name |-> S_02_discussion, channel_id |-> S_C2, user_name |-> S_bob,
     text |-> S_news, ts |-> TS_before_day2, reply_count |-> 0],
    [channel_name |-> S_07_intros, user_name |-> S_Bob, text |-> S_hi,
     ts |-> TS_day3],
    [user_name |-> S_ann],
    [channel_name |-> S_03_news, channel_id |-> S_C2, user_name |-> S_ann,
     text |-> <<>>, ts |-> TS_after_day3, reply_count |-> 1] >>

\* the member record extracted with each message: the same ts
MemberUniverse == <<
    [name |-> S_Ann, text |-> S_Hi_all, permalink |-> S_p1, ts |-> TS_day2],
    [name |-> S_bob, ts |-> TS_before_day2],
    [name |-> S_Bob, text |-> S_hi, ts |-> TS_day3],
    [permalink |-> S_p1],
    [name |-> S_ann, text |-> <<>>, ts |-> TS_after_day3] >>

RecordIds == 1..Len(MsgUniverse)

IdSeqs == UNION {[1..n -> RecordIds] : n \in 0..MaxRecords}

\* the dataset whose i-th message and i-th member are those of record ids[i]
DatasetOf(ids) ==
    [all_messages |-> [i \in 1..Len(ids) |-> MsgUniverse[ids[i]]],
     new_members |-> [i \in 1..Len(ids) |-> MemberUniverse[ids[i]]]]

Datasets == {DatasetOf(ids) : ids \in IdSeqs}

-----------------------------------------------------------------------------
(* Inputs of the direct calls *)

S_1970_01_01 == <<"1","9","7","0","-","0","1","-","0","1">>
S_1970_01_02 == <<"1","9","7","0","-","0","1","-","0","2">>
S_1970_01_03 == <<"1","9","7","0","-","0","1","-","0","3">>
S_1970_13_01 == <<"1","9","7","0","-","1","3","-","0","1">>
S_yesterday == <<"y","e","s","t","e","r","d","a","y">>
S_intros == S_intro \o <<"s">>
S_zz == <<"z","z">>
S_AN == <<"A","N">>
S_HI == <<"H","I">>
S_Intro == <<"I","n","t","r","o">>
S_bogus == <<"b","o","g","u","s">>

Absent == [present |-> FALSE]
Given(v) == [present |-> TRUE, v |-> v]

FilterKeys ==
    {"channel", "from_date", "to_date", "user", "search_text", "has_replies",
     "category"}

\* the keyword arguments a choice of options stands for
Filters(ch) == [k \in {k \in DOMAIN ch : ch[k].present} |-> ch[k].v]

GoodDates == {PyStr(S_1970_01_02), PyStr(S_1970_01_03)}
BadDates == {PyStr(S_yesterday), PyStr(S_1970_13_01), PyStr(<<>>)}

\* every field absent or present with a valid value
ValidChoices ==
    [channel : {Absent, Given(S_intros)},
     from_date : {Absent} \cup {Given(d) : d \in GoodDates},
     to_date : {Absent} \cup {Given(d) : d \in GoodDates},
     user : {Absent, Given(S_AN)},
     search_text : {Absent, Given(S_HI)},
     has_replies : {Absent, Given(TRUE), Given(FALSE)},
     category : {Absent, Given(S_Intro), Given(S_news)}]

\* a malformed date bound, with or without a channel filter
BadDateChoices ==
    {ch \in [channel : {Absent, Given(S_intros), Given(S_zz)},
             from_date : {Absent, Given(PyStr(S_1970_01_03))}
                         \cup {Given(d) : d \in BadDates},
             to_date : {Absent, Given(PyStr(S_1970_01_02))}
                       \cup {Given(d) : d \in BadDates},
             user : {Absent}, search_text : {Absent}, has_replies : {Absent},
             category : {Absent}] :
        \/ ch.from_date.present /\ ch.from_date.v \in BadDates
        \/ ch.to_date.present /\ ch.to_date.v \in BadDates}

\* a category that is no key of category_map
BadCategoryChoices ==
    [channel : {Absent, Given(S_intros)},
     from_date : {Absent}, to_date : {Absent}, user : {Absent},
     search_text : {Absent}, has_replies : {Absent, Given(TRUE)},
     category : {Given(S_bogus)}]

FilterChoices == ValidChoices \cup BadDateChoices \cup BadCategoryChoices

MemberDates == {PyNone} \cup GoodDates \cup BadDates

-----------------------------------------------------------------------------
(* Direct calls of the two query functions on a loaded dataset *)

NoCall == [op |-> "none"]
NoResult == [ok |-> TRUE, val |-> <<>>]

InitFilter ==
    /\ files = <<>>
    /\ dataset \in Datasets
    /\ call = NoCall
    /\ result = NoResult

\* the caller takes the outcome; the next call starts from the same dataset
Return ==
    /\ call # NoCall
    /\ call' = NoCall
    /\ result' = NoResult
    /\ UNCHANGED <<files, dataset>>

QueryMessagesCall ==
    /\ call = NoCall
    /\ \E ch \in FilterChoices :
        /\ call' = [op |-> "query_messages", filters |-> Filters(ch)]
        /\ result' = query_messages(dataset, Filters(ch))
        /\ UNCHANGED <<files, dataset>>

GetNewMembersCall ==
    /\ call = NoCall
    /\ \E from_date \in MemberDates, to_date \in MemberDates :
        /\ call' = [op |-> "get_new_members", from_date |-> from_date,
                    to_date |-> to_date]
        /\ result' = get_new_members(dataset, from_date, to_date)
        /\ UNCHANGED <<files, dataset>>

NextFilter == QueryMessagesCall \/ GetNewMembersCall \/ Return

SpecFilter == InitFilter /\ [][NextFilter]_vars

-----------------------------------------------------------------------------
(* The gateway: tool calls against the data directory *)

N_hemingway_b == S_hemingway_ \o <<"b">> \o S_json
N_slack_a == S_slack_ \o <<"a">> \o S_json
N_slack_a_slack_export == S_slack_ \o <<"a">> \o S_slack_export \o S_json
N_notes == <<"n","o","t","e","s">> \o S_json

FileNames == {N_hemingway_b, N_slack_a, N_slack_a_slack_export, N_notes}
Contents == {"json", "bad"}

\* the snapshot the gateway reads: two messages, and two members of whom the
\* second carries a ts that is no number
GatewayDataset ==
    [all_messages |-> DatasetOf(<<1, 2>>).all_messages,
     new_members |-> << MemberUniverse[1],
                        [name |-> S_bob, ts |-> <<"n","/","a">>] >>]

\* {}: a dict of no keys
EmptyArgs == <<>>
S_Hi == <<"H","i">>
S_url == <<"https://example.com">>

GatewayArgs(name) ==
    CASE name = "query_messages" ->
           {EmptyArgs, [limit |-> 1], [channel |-> S_intros],
            [from_date |-> PyStr(S_yesterday)],
            [from_date |-> PyStr(S_1970_01_02)]}
      [] name = "get_new_members" ->
           {EmptyArgs, [from_date |-> PyStr(S_1970_01_02)],
            [to_date |-> PyStr(S_yesterday)]}
      [] name = "get_channel_stats" ->
           {EmptyArgs,
            [from_date |-> PyStr(S_1970_01_02), to_date |-> PyStr(S_1970_01_03)],
            [from_date |-> PyStr(S_yesterday), to_date |-> PyStr(S_1970_01_03)]}
      [] name = "get_extraction_info" -> {EmptyArgs}
      [] name = "build_header" ->
           {EmptyArgs, [text |-> S_Hi], [text |-> S_Hi, emoji |-> FALSE]}
      [] name = "build_section" ->
           {EmptyArgs, [text |-> S_Hi], [text |-> S_Hi, markdown |-> FALSE]}
      [] name = "build_divider" -> {EmptyArgs}
      [] name = "build_button" ->
           {[text |-> S_Hi], [text |-> S_Hi, url |-> S_url],
            [text |-> S_Hi, url |-> S_url, action_id |-> S_Hi]}
      [] name = "build_context" -> {EmptyArgs, [elements |-> <<S_Hi, S_hi>>]}
      [] OTHER -> {EmptyArgs}

\* the arguments of the data tools, over varied datasets
Limits == (0 - MaxRecords)..(MaxRecords + 1)

ToolFilters ==
    {EmptyArgs, [channel |-> S_intros], [has_replies |-> TRUE],
     [from_date |-> PyStr(S_1970_01_02)],
     [from_date |-> PyStr(S_1970_01_02), to_date |-> PyStr(S_1970_01_03)]}

WithLimit(f, l) ==
    [k \in DOMAIN f \cup {"limit"} |-> IF k = "limit" THEN l ELSE f[k]]

ToolDateArgs(froms, tos) ==
    {Filters([from_date |-> a, to_date |-> b]) :
        a \in {Absent} \cup {Given(d) : d \in froms},
        b \in {Absent} \cup {Given(d) : d \in tos}}

ToolArgs(name) ==
    CASE name = "query_messages" ->
           ToolFilters \cup {WithLimit(f, l) : f \in ToolFilters, l \in Limits}
      [] name = "get_new_members" ->
           ToolDateArgs(GoodDates \cup {PyStr(S_yesterday), PyStr(<<>>)},
                        {PyStr(S_1970_01_03)})
      [] name = "get_channel_stats" ->
           ToolDateArgs(GoodDates \cup {PyStr(S_1970_01_01), PyStr(S_yesterday)},
                        GoodDates \cup {PyStr(S_yesterday)})
      [] OTHER -> {EmptyArgs}

\* the argument maps of a suite of calls: "gateway" or "data tools"
Arguments(suite, name) ==
    IF suite = "gateway" THEN GatewayArgs(name) ELSE ToolArgs(name)

\* the effect of one call_tool invocation
Invoke(name, arguments) ==
    /\ call' = [op |-> "call_tool", name |-> name, arguments |-> arguments]
    /\ result' = call_tool(files, dataset, name, arguments)
    /\ UNCHANGED <<files, dataset>>

CallQueryMessages(suite) ==
    /\ call = NoCall
    /\ \E a \in Arguments(suite, "query_messages") : Invoke("query_messages", a)

CallGetNewMembers(suite) ==
    /\ call = NoCall
    /\ \E a \in Arguments(suite, "get_new_members") : Invoke("get_new_members", a)

CallGetChannelStats(suite) ==
    /\ call = NoCall
    /\ \E a \in Arguments(suite, "get_channel_stats") : Invoke("get_channel_stats", a)

CallGetExtractionInfo(suite) ==
    /\ call = NoCall
    /\ \E a \in Arguments(suite, "get_extraction_info") : Invoke("get_extraction_info", a)

CallBuildHeader ==
    /\ call = NoCall
    /\ \E a \in GatewayArgs("build_header") : Invoke("build_header", a)

CallBuildSection ==
    /\ call = NoCall
    /\ \E a \in GatewayArgs("build_section") : Invoke("build_section", a)

CallBuildDivider ==
    /\ call = NoCall
    /\ \E a \in GatewayArgs("build_divider") : Invoke("build_divider", a)

CallBuildButton ==
    /\ call = NoCall
    /\ \E a \in GatewayArgs("build_button") : Invoke("build_button", a)

CallBuildContext ==
    /\ call = NoCall
    /\ \E a \in GatewayArgs("build_context") : Invoke("build_context", a)

CallUnknownTool ==
    /\ call = NoCall
    /\ Invoke("send_message", EmptyArgs)

\* a direct call of the locator
GetLatestExtractionCall ==
    /\ call = NoCall
    /\ call' = [op |-> "get_latest_extraction"]
    /\ result' = Ok(get_latest_extraction(files))
    /\ UNCHANGED <<files, dataset>>

\* the environment: an extraction run writes or rewrites a snapshot file
WriteFile ==
    /\ call = NoCall
    /\ \E name \in FileNames, mtime \in 1..MaxMtime, content \in Contents :
          LET f == [name |-> name, mtime |-> mtime, content |-> content]
          IN IF Exists(files, name)
             THEN files' = [i \in 1..Len(files) |->
                               IF files[i].name = name THEN f ELSE files[i]]
             ELSE /\ Len(files) < MaxFiles
                  /\ files' = Append(files, f)
    /\ UNCHANGED <<dataset, call, result>>

\* the environment: a snapshot file is deleted
RemoveFile ==
    /\ call = NoCall
    /\ \E i \in 1..Len(files) :
          files' = SubSeq(files, 1, i - 1) \o SubSeq(files, i + 1, Len(files))
    /\ UNCHANGED <<dataset, call, result>>

Init ==
    /\ files = <<>>
    /\ dataset = GatewayDataset
    /\ call = NoCall
    /\ result = NoResult

Next ==
    \/ CallQueryMessages("gateway")
    \/ CallGetNewMembers("gateway")
    \/ CallGetChannelStats("gateway")
    \/ CallGetExtractionInfo("gateway")
    \/ CallBuildHeader
    \/ CallBuildSection
    \/ CallBuildDivider
    \/ CallBuildButton
    \/ CallBuildContext
    \/ CallUnknownTool
    \/ GetLatestExtractionCall
    \/ WriteFile
    \/ RemoveFile
    \/ Return

Spec == Init /\ [][Next]_vars

\* the data tools over every dataset, the newest snapshot being readable
InitTool ==
    /\ files = << [name |-> N_notes, mtime |-> 2, content |-> "bad"],
                  [name |-> N_hemingway_b, mtime |-> 1, content |-> "json"] >>
    /\ dataset \in Datasets
    /\ call = NoCall
    /\ result = NoResult

NextTool ==
    \/ CallQueryMessages("data tools")
    \/ CallGetNewMembers("data tools")
    \/ CallGetChannelStats("data tools")
    \/ CallGetExtractionInfo("data tools")
    \/ Return

SpecTool == InitTool /\ [][NextTool]_vars

-----------------------------------------------------------------------------
(* What the filters are specified to compute *)

RECURSIVE Select(_, _)
\* the subsequence of s made of the positions i with keep[i]
Select(s, keep) ==
    IF s = <<>> THEN <<>>
    ELSE LET rest == Select(Tail(s), [i \in 1..(Len(s) - 1) |-> keep[i + 1]])
         IN IF keep[1] THEN <<Head(s)>> \o rest ELSE rest

\* the local date-time of a record's ts, epoch 0 when ts is missing
LocalTime(rec) == FromTimestampStr(Get(rec, "ts", <<"0">>)).val

\* midnight of a well-formed date
Midnight(d) == fromisoformat(d).val

\* a <= b on date-times
DtAtMost(a, b) == a.sec < b.sec \/ (a.sec = b.sec /\ a.usec <= b.usec)

WellFormedDate(d) == d.t = "str" /\ fromisoformat(d).ok

KnownCategory(c) == Lower(c) \in category_keys

\* every present field of the filter specification has a valid value
ValidFilterSpec(f) ==
    /\ "from_date" \in DOMAIN f => WellFormedDate(f["from_date"])
    /\ "to_date" \in DOMAIN f => WellFormedDate(f["to_date"])
    /\ "category" \in DOMAIN f => KnownCategory(f["category"])

\* the message passes every present predicate of f
PassesAll(msg, f) ==
    /\ "channel" \in DOMAIN f =>
          Contains(f["channel"], Get(msg, "channel_name", <<>>))
    /\ "from_date" \in DOMAIN f =>
          DtAtMost(Midnight(f["from_date"]), LocalTime(msg))
    /\ "to_date" \in DOMAIN f =>
          DtAtMost(LocalTime(msg), Midnight(f["to_date"]))
    /\ "user" \in DOMAIN f =>
          Contains(Lower(f["user"]), Lower(Get(msg, "user_name", <<>>)))
    /\ "search_text" \in DOMAIN f =>
          Contains(Lower(f["search_text"]), Lower(Get(msg, "text", <<>>)))
    /\ "has_replies" \in DOMAIN f =>
          (f["has_replies"] <=> Get(msg, "reply_count", 0) > 0)
    /\ "category" \in DOMAIN f =>
          Contains(category_map(Lower(f["category"])),
                   Get(msg, "channel_name", <<>>))

\* the messages of the dataset that pass every present predicate, in order
Matching(data, f) ==
    LET ms == Get(data, "all_messages", <<>>)
    IN Select(ms, [i \in 1..Len(ms) |-> PassesAll(ms[i], f)])

\* a record is within the bounds given (PyNone: no bound), both inclusive
InRange(rec, from_date, to_date) ==
    /\ from_date # PyNone => DtAtMost(Midnight(from_date), LocalTime(rec))
    /\ to_date # PyNone => DtAtMost(LocalTime(rec), Midnight(to_date))

\* the bound a filter specification gives for key k, PyNone when absent
BoundOf(f, k) == Get(f, k, PyNone)

-----------------------------------------------------------------------------
(* Claims about the direct calls, checked under SpecFilter *)

\* C1: for every dataset and every filter specification with valid values,
\* query_messages returns exactly the messages of all_messages that pass every
\* present predicate, in the original order, nothing duplicated or dropped;
\* with every field absent it returns all_messages itself.
C1_QueryReturnsMatchingSubsequence ==
    (call.op = "query_messages" /\ ValidFilterSpec(call.filters)) =>
        /\ result = Ok(Matching(dataset, call.filters))
        /\ DOMAIN call.filters = {} => result = Ok(dataset.all_messages)

\* C1 witness: three predicates present, some message kept and some dropped
C1_Witness ==
    /\ call.op = "query_messages"
    /\ ValidFilterSpec(call.filters)
    /\ {"from_date", "has_replies", "category"} \subseteq DOMAIN call.filters
    /\ result.ok
    /\ Len(result.val) = 1
    /\ Len(dataset.all_messages) = 2

\* the call is a date-range query and nothing else, with well-formed bounds
DateOnlyCall ==
    \/ /\ call.op = "query_messages"
       /\ DOMAIN call.filters \subseteq {"from_date", "to_date"}
       /\ ValidFilterSpec(call.filters)
    \/ /\ call.op = "get_new_members"
       /\ call.from_date \in {PyNone} \cup GoodDates
       /\ call.to_date \in {PyNone} \cup GoodDates

GivenFrom ==
    IF call.op = "query_messages" THEN BoundOf(call.filters, "from_date")
    ELSE call.from_date

GivenTo ==
    IF call.op = "query_messages" THEN BoundOf(call.filters, "to_date")
    ELSE call.to_date

\* the filter specification that gives query_messages the bounds of the call
BoundsAsFilters ==
    [k \in {k \in {"from_date", "to_date"} :
              (IF k = "from_date" THEN GivenFrom ELSE GivenTo) # PyNone} |->
        IF k = "from_date" THEN GivenFrom ELSE GivenTo]

\* C2: date-range filtering is inclusive at both ends in query_messages and in
\* get_new_members alike: each returns exactly the records whose ts is at or
\* after midnight of from_date and at or before midnight of to_date, and on
\* the same ts values and bounds the two keep the same positions.
C2_DateRangeInclusiveAndShared ==
    DateOnlyCall =>
        LET ms == dataset.all_messages
            mb == dataset.new_members
            keep(s) == [i \in 1..Len(s) |-> InRange(s[i], GivenFrom, GivenTo)]
        IN /\ call.op = "query_messages" => result = Ok(Select(ms, keep(ms)))
           /\ call.op = "get_new_members" => result = Ok(Select(mb, keep(mb)))
           /\ query_messages(dataset, BoundsAsFilters) = Ok(Select(ms, keep(ms)))
           /\ get_new_members(dataset, GivenFrom, GivenTo) = Ok(Select(mb, keep(mb)))
           /\ \A i \in 1..Len(ms) :
                 Get(ms[i], "ts", <<"0">>) = Get(mb[i], "ts", <<"0">>) =>
                     keep(ms)[i] = keep(mb)[i]

\* C2 witness: a member exactly at midnight of from_date is kept and one
\* after midnight of to_date is dropped
C2_Witness ==
    /\ call.op = "get_new_members"
    /\ call.from_date = PyStr(S_1970_01_02)
    /\ call.to_date = PyStr(S_1970_01_03)
    /\ dataset.new_members = <<MemberUniverse[1], MemberUniverse[5]>>
    /\ result = Ok(<<MemberUniverse[1]>>)

\* the call carries a malformed from_date or to_date string
MalformedBound(d) == d.t = "str" /\ ~fromisoformat(d).ok

HasMalformedDate ==
    \/ /\ call.op = "query_messages"
       /\ \E k \in {"from_date", "to_date"} \cap DOMAIN call.filters :
              MalformedBound(call.filters[k])
    \/ /\ call.op = "get_new_members"
       /\ (MalformedBound(call.from_date) \/ MalformedBound(call.to_date))

\* C3: a query_messages or get_new_members call with a malformed from_date or
\* to_date ends in an error, for every dataset (an empty collection included)
\* and every other filter (a channel filter that rejects everything included).
C3_MalformedDateIsAnError == HasMalformedDate => ~result.ok

\* C4: query_messages with a category that is none of intro, ask, discussion,
\* news, session (case-insensitively) ends in an error for every dataset.
C4_UnknownCategoryIsAnError ==
    (/\ call.op = "query_messages"
     /\ "category" \in DOMAIN call.filters
     /\ ~KnownCategory(call.filters["category"])) => ~result.ok

-----------------------------------------------------------------------------
(* Claims about the data tools of call_tool, checked under SpecTool *)

ToolCall(name) == call.op = "call_tool" /\ call.name = name

\* the text of the payload a call_tool invocation returned
PayloadText == result.content[1].text

IsErrorPayload == PayloadText.fmt = "str" /\ PayloadText.parts[1] = "Error: "

IsPrefixOf(a, b) == Len(a) <= Len(b) /\ SubSeq(b, 1, Len(a)) = a

\* the filter fields of the arguments of a query_messages tool call
ArgFilters == [k \in DOMAIN call.arguments \ {"limit"} |-> call.arguments[k]]

\* the projections of every message matching the filter fields, in order
FullProjection ==
    LET m == Matching(dataset, ArgFilters)
    IN [i \in 1..Len(m) |-> SimplifyMessage(m[i])]

\* C6: the query_messages tool applies limit after filtering: for every integer
\* limit (50 when absent) the records returned are a prefix of the full
\* filtered sequence, at most max(limit, 0) of them, and exactly the first
\* limit of them when at least limit messages match.
C6_LimitBoundsThePrefix ==
    (ToolCall("query_messages") /\ ValidFilterSpec(ArgFilters)) =>
        LET limit == Get(call.arguments, "limit", DefaultLimit)
        IN /\ ~result.raised
           /\ PayloadText.fmt = "json"
           /\ IsPrefixOf(PayloadText.doc, FullProjection)
           /\ Len(PayloadText.doc) <= (IF limit > 0 THEN limit ELSE 0)
           /\ (limit >= 0 /\ Len(FullProjection) >= limit) =>
                  Len(PayloadText.doc) = limit

\* the dates of a get_channel_stats call are absent or well formed
StatsBoundsValid ==
    \A k \in DOMAIN call.arguments : WellFormedDate(call.arguments[k])

\* doc is the channel counts of the messages ms: one pair per channel, its
\* count the number of its messages, counts descending, equal counts in the
\* order of first occurrence
StatsAsSpecified(doc, ms) ==
    LET chan(i) == Get(ms[i], "channel_name", S_unknown)
        count(c) == Cardinality({i \in 1..Len(ms) : chan(i) = c})
        first(c) == CHOOSE i \in 1..Len(ms) :
                        chan(i) = c /\ \A j \in 1..(i - 1) : chan(j) # c
    IN /\ {doc[i][1] : i \in 1..Len(doc)} = {chan(i) : i \in 1..Len(ms)}
       /\ \A i, j \in 1..Len(doc) : i # j => doc[i][1] # doc[j][1]
       /\ \A i \in 1..Len(doc) : doc[i][2] = count(doc[i][1])
       /\ \A i, j \in 1..Len(doc) :
             i < j => \/ doc[i][2] > doc[j][2]
                      \/ /\ doc[i][2] = doc[j][2]
                         /\ first(doc[i][1]) < first(doc[j][1])

\* C7: get_channel_stats returns one (channel, count) pair per distinct channel
\* of the filtered messages ("unknown" for a missing channel_name), count
\* descending, equal counts in order of first occurrence.
C7_StatsGroupedAndOrdered ==
    (ToolCall("get_channel_stats") /\ StatsBoundsValid) =>
        /\ ~result.raised
        /\ PayloadText.fmt = "json"
        /\ StatsAsSpecified(PayloadText.doc, Matching(dataset, call.arguments))

\* C9: get_channel_stats called without from_date, without to_date or without
\* both, on a dataset with at least one message, returns the counts over the
\* messages satisfying the bound that is given (all messages when none is),
\* and does not end in an error.
C9_AbsentBoundIsNoConstraint ==
    (/\ ToolCall("get_channel_stats")
     /\ StatsBoundsValid
     /\ DOMAIN call.arguments # {"from_date", "to_date"}
     /\ Len(dataset.all_messages) >= 1) =>
        /\ ~IsErrorPayload
        /\ StatsAsSpecified(PayloadText.doc, Matching(dataset, call.arguments))

-----------------------------------------------------------------------------
(* Claims about the gateway and the locator, checked under Spec *)

StartsWith(s, p) == Len(s) >= Len(p) /\ SubSeq(s, 1, Len(p)) = p
EndsWith(s, p) == Len(s) >= Len(p) /\ SubSeq(s, Len(s) - Len(p) + 1, Len(s)) = p

\* the name matches one of the three fixed patterns
IsSnapshotName(n) ==
    \/ StartsWith(n, S_hemingway_) /\ EndsWith(n, S_json)
       /\ Len(n) >= Len(S_hemingway_) + Len(S_json)
    \/ StartsWith(n, S_slack_) /\ EndsWith(n, S_json)
       /\ Len(n) >= Len(S_slack_) + Len(S_json)
    \/ EndsWith(n, S_slack_export \o S_json)

Snapshots == {i \in 1..Len(files) : IsSnapshotName(files[i].name)}

\* the file of that name is a snapshot no other snapshot is newer than
IsNewestSnapshot(name) ==
    \E i \in Snapshots :
        /\ files[i].name = name
        /\ \A j \in Snapshots : files[j].mtime <= files[i].mtime

\* C5: every call_tool invocation, whatever the tool, the arguments and the
\* data directory, returns one text payload and raises nothing; a failure
\* inside the call comes back as the text "Error: <message>"; and the call
\* leaves the data directory and the datasets as they were, so that later
\* calls answer as if it had never been made.
C5_GatewayReturnsTextAndKeepsNothing ==
    [][ (call = NoCall /\ call'.op = "call_tool") =>
           /\ ~result'.raised
           /\ Len(result'.content) = 1
           /\ result'.content[1].type = "text"
           /\ LET o == call_tool_try(files, dataset, call'.name, call'.arguments)
              IN ~o.ok => result'.content[1].text = ErrorText(o.msg)
           /\ files' = files
           /\ dataset' = dataset ]_vars

\* C5 witness: a call on an unparsable snapshot has come back as an error text
C5_Witness ==
    /\ call.op = "call_tool"
    /\ get_latest_extraction(files).found
    /\ ContentOf(files, get_latest_extraction(files).name) = "bad"
    /\ ~result.raised
    /\ IsErrorPayload

\* C8: get_latest_extraction returns a file matching one of the patterns whose
\* modification time is the greatest of all matches, whatever the names, and
\* none exactly when nothing matches; call_tool then answers with the no-data
\* message, which is no "Error:" payload.
C8_LocatorPicksNewestSnapshot ==
    /\ call.op = "get_latest_extraction" =>
          /\ (Snapshots = {}) <=> (result.val = NoPath)
          /\ Snapshots # {} => /\ result.val.found
                               /\ IsNewestSnapshot(result.val.name)
    /\ (call.op = "call_tool" /\ Snapshots = {}) =>
          /\ result = Returned(NoDataText)
          /\ ~IsErrorPayload
    /\ (ToolCall("get_extraction_info") /\ PayloadText.fmt = "json") =>
          IsNewestSnapshot(PayloadText.doc.data_file)

\* C8 witness: of two snapshots the one globbed last is the newer and is chosen
C8_Witness ==
    /\ call.op = "get_latest_extraction"
    /\ Len(files) = 2
    /\ files[1].name = N_hemingway_b /\ files[1].mtime = 1
    /\ files[2].name = N_slack_a /\ files[2].mtime = 2
    /\ result.val = PathOf(N_slack_a)

\* data directories with no snapshot, an unparsable one, a valid one
ReferenceDirs ==
    { <<>>,
      << [name |-> N_hemingway_b, mtime |-> 1, content |-> "bad"] >>,
      << [name |-> N_hemingway_b, mtime |-> 1, content |-> "json"] >> }

\* C10: a layout-builder call returns the same block fragment whatever the
\* state of the data directory: no snapshot, an unparsable one, a valid one.
C10_BuildersIgnoreDataDirectory ==
    (call.op = "call_tool" /\ call.name \in BuilderTools) =>
        \A fs \in ReferenceDirs :
            call_tool(fs, dataset, call.name, call.arguments) = result

====
